---- MODULE Spec2Model ----
(***************************************************************************)
(* A model of src/src/credentials_manager.py: the CredentialsManager vault *)
(* (key derivation, the repeating-key XOR cipher of store/get, password    *)
(* rotation, and save/load through a base64/JSON file).                    *)
(*                                                                         *)
(* Text is a sequence of code points, bytes are integers 0..255, a Python  *)
(* dict is a sequence of [k, v] records in insertion order.                *)
(***************************************************************************)
EXTENDS Integers, Sequences, FiniteSets, TLC

(***************************************************************************)
(* Bounds of the model.                                                    *)
(***************************************************************************)
\* the 16-bit integers _get_key_length reads from the host fingerprint hash
HostKeyInt == 0
HostSaltInt == 1
\* the number of calls in one behaviour that succeed or change the vault
\* (get and the calls that fail without effect are not counted)
MaxSteps == 2
\* the same count in the specification of a vault and the one file it saves
MaxDiskSteps == 4

(***************************************************************************)
(* Program constants.                                                      *)
(***************************************************************************)
MIN_LENGTH == 16
MAX_LENGTH == 64

PW_FIELD == "__cm_password__"
SALT_FIELD == "__salt__"

(***************************************************************************)
(* Integer helpers: Python's ^ on non-negative integers.                   *)
(***************************************************************************)
RECURSIVE Xor(_, _)
Xor(a, b) ==
    IF a = 0 THEN b
    ELSE IF b = 0 THEN a
    ELSE (((a % 2) + (b % 2)) % 2) + 2 * Xor(a \div 2, b \div 2)

\* seq[i % len(seq)] with Python's 0-based index i
Cyc(seq, i) == seq[(i % Len(seq)) + 1]

(***************************************************************************)
(* _get_key_length: clip() maps the two host integers into 16..64.         *)
(***************************************************************************)
clip(length) == MIN_LENGTH + (length % (MAX_LENGTH - MIN_LENGTH + 1))

KeyLength == clip(HostKeyInt)
SaltLength == clip(HostSaltInt)

(***************************************************************************)
(* hashlib.sha256(p.encode()).hexdigest() followed by bytearray(map(ord,   *)
(* ...)): the 64 hex characters of the digest as ASCII codes.  The table   *)
(* holds the real digests of the passwords the model uses.                 *)
(***************************************************************************)
Passwords == {"p1", "p2", "p3"}

HexCode(h) == IF h < 10 THEN 48 + h ELSE 87 + h

\* the hex digits of the three digests
HexP1 ==
    <<15,6,4,5,5,1,15,12,13,6,15,0,7,8,2,3,12,11,8,7,9,7,1,12,15,11,9,1,4,4,6,4,
      2,5,13,10,1,8,2,8,6,11,3,10,11,1,14,15,9,3,5,14,0,12,11,13,7,10,6,9,15,6,8,10>>
HexP2 ==
    <<3,9,4,6,12,10,6,4,15,15,7,8,13,9,3,12,10,6,1,0,9,0,10,4,3,7,12,11,11,6,11,3,
      13,2,12,10,0,13,4,8,8,15,5,15,9,12,12,15,3,0,5,9,6,0,8,3,6,8,11,2,7,6,9,3>>
HexP3 ==
    <<4,3,11,11,0,0,13,0,12,14,7,7,9,0,10,5,3,11,9,1,2,5,6,11,3,7,0,12,8,8,7,11,
      2,4,7,9,1,10,5,5,3,9,10,6,15,11,15,11,7,0,12,5,8,7,0,14,8,12,9,1,10,14,5,13>>

DigestP1 == [i \in 1..64 |-> HexCode(HexP1[i])]
DigestP2 == [i \in 1..64 |-> HexCode(HexP2[i])]
DigestP3 == [i \in 1..64 |-> HexCode(HexP3[i])]

Sha256Hex(p) ==
    CASE p = "p1" -> DigestP1
      [] p = "p2" -> DigestP2
      [] OTHER -> DigestP3

(***************************************************************************)
(* bytearray.decode('utf-8'): strict UTF-8 decoding to code points.        *)
(***************************************************************************)
DecodeError == <<-1>>

IsCont(b) == b >= 128 /\ b <= 191

\* the number of bytes of the character starting at b[i], 0 when malformed
Utf8Width(b, i) ==
    LET b0 == b[i]
        n == Len(b) - i + 1
        b1 == IF n >= 2 THEN b[i + 1] ELSE 0
    IN  IF b0 < 128 THEN 1
        ELSE IF b0 >= 194 /\ b0 <= 223
             THEN IF n >= 2 /\ IsCont(b1) THEN 2 ELSE 0
        ELSE IF b0 >= 224 /\ b0 <= 239
             THEN IF /\ n >= 3
                     /\ IsCont(b1)
                     /\ (b0 = 224 => b1 >= 160)
                     /\ (b0 = 237 => b1 <= 159)
                     /\ IsCont(b[i + 2])
                  THEN 3 ELSE 0
        ELSE IF b0 >= 240 /\ b0 <= 244
             THEN IF /\ n >= 4
                     /\ IsCont(b1)
                     /\ (b0 = 240 => b1 >= 144)
                     /\ (b0 = 244 => b1 <= 143)
                     /\ IsCont(b[i + 2])
                     /\ IsCont(b[i + 3])
                  THEN 4 ELSE 0
        ELSE 0

Utf8Char(b, i, w) ==
    CASE w = 1 -> b[i]
      [] w = 2 -> (b[i] - 192) * 64 + (b[i + 1] - 128)
      [] w = 3 -> (b[i] - 224) * 4096 + (b[i + 1] - 128) * 64 + (b[i + 2] - 128)
      [] OTHER -> (b[i] - 240) * 262144 + (b[i + 1] - 128) * 4096
                    + (b[i + 2] - 128) * 64 + (b[i + 3] - 128)

\* UTF-8 is self-synchronising: the characters of a well-formed text start
\* at exactly the bytes that are not continuation bytes
Utf8Decode(b) ==
    LET starts == SelectSeq([i \in 1..Len(b) |-> i], LAMBDA i : ~IsCont(b[i]))
        wellFormed ==
            /\ (Len(b) > 0 => ~IsCont(b[1]))
            /\ \A n \in DOMAIN starts :
                  LET i == starts[n]
                      w == Utf8Width(b, i)
                  IN  /\ w # 0
                      /\ (i + w <= Len(b) => ~IsCont(b[i + w]))
    IN  IF ~wellFormed THEN DecodeError
        ELSE [n \in DOMAIN starts |->
                Utf8Char(b, starts[n], Utf8Width(b, starts[n]))]

(***************************************************************************)
(* dict operations on a sequence of [k, v] records in insertion order.     *)
(***************************************************************************)
Keys(m) == {m[i].k : i \in DOMAIN m}

Has(m, name) == name \in Keys(m)

Lookup(m, name) == m[CHOOSE i \in DOMAIN m : m[i].k = name].v

\* m[name] = value: replaces in place, or appends a new key
Put(m, name, value) ==
    IF Has(m, name)
    THEN [i \in DOMAIN m |-> IF m[i].k = name THEN [k |-> name, v |-> value] ELSE m[i]]
    ELSE Append(m, [k |-> name, v |-> value])

(***************************************************************************)
(* The vault: [key |-> bytes, mapping |-> dict].                           *)
(***************************************************************************)
Reserved == {PW_FIELD, SALT_FIELD}

\* bytearray(iterable of int) raises ValueError unless every item is a byte
IsBytes(s) == \A i \in DOMAIN s : s[i] >= 0 /\ s[i] <= 255

\* a variant that does not wrap the index into the key
EncryptFromStart(key, data) ==
    [i \in 1..Len(data) |-> Xor(data[i], key[IF i <= Len(key) THEN i ELSE Len(key)])]

\* the lambda of store: ord(x[1]) ^ key[x[0] % len(key)], over enumerate(data)
Encrypt(key, data) == [i \in 1..Len(data) |-> Xor(data[i], Cyc(key, i - 1))]

\* the lambda of get: x[1] ^ key[x[0] % len(key)], over enumerate(mapping[name])
Decrypt(key, cipher) == [i \in 1..Len(cipher) |-> Xor(cipher[i], Cyc(key, i - 1))]

\* a variant that leaves the salt out of the key
DeriveKeyUnsalted(pswd, salt) ==
    [i \in 1..KeyLength |-> Cyc(pswd, i - 1)]

\* the key of _update_encryptions: pswd[i % len(pswd)] ^ salt[i % len(salt)]
DeriveKey(pswd, salt) ==
    [i \in 1..KeyLength |-> Xor(Cyc(pswd, i - 1), Cyc(salt, i - 1))]

Ok == "ok"

(***************************************************************************)
(* store(name, data, overwrite): the outcome and the vault it leaves.      *)
(***************************************************************************)
\* a variant that does not reject empty data
store_any_data(v, name, data, overwrite) ==
    IF name = ""
    THEN [err |-> "ValueError: empty name", vault |-> v]
    ELSE IF Has(v.mapping, name) /\ ~overwrite
    THEN [err |-> "ValueError: cannot overwrite", vault |-> v]
    ELSE LET cipher == Encrypt(v.key, data)
         IN  IF ~IsBytes(cipher)
             THEN [err |-> "ValueError: byte must be in range", vault |-> v]
             ELSE [err |-> Ok,
                   vault |-> [v EXCEPT !.mapping = Put(v.mapping, name, cipher)]]

store(v, name, data, overwrite) ==
    IF name = ""
    THEN [err |-> "ValueError: empty name", vault |-> v]
    ELSE IF data = <<>>
    THEN [err |-> "ValueError: empty data", vault |-> v]
    ELSE IF Has(v.mapping, name) /\ ~overwrite
    THEN [err |-> "ValueError: cannot overwrite", vault |-> v]
    ELSE LET cipher == Encrypt(v.key, data)
         IN  IF ~IsBytes(cipher)
             THEN [err |-> "ValueError: byte must be in range", vault |-> v]
             ELSE [err |-> Ok,
                   vault |-> [v EXCEPT !.mapping = Put(v.mapping, name, cipher)]]

(***************************************************************************)
(* get(name): the outcome and the text returned.                           *)
(***************************************************************************)
get(v, name) ==
    IF name = ""
    THEN [err |-> "ValueError: empty name", val |-> <<>>]
    ELSE IF ~Has(v.mapping, name)
    THEN [err |-> "ValueError: not a known credential", val |-> <<>>]
    ELSE LET plain == Utf8Decode(Decrypt(v.key, Lookup(v.mapping, name)))
         IN  IF plain = DecodeError
             THEN [err |-> "UnicodeDecodeError", val |-> <<>>]
             ELSE [err |-> Ok, val |-> plain]

(***************************************************************************)
(* _update_encryptions(password, salt, pswd_is_digest).  A salt of None is *)
(* <<>>; rnd is the salt secrets.randbelow would produce.                  *)
(***************************************************************************)
\* the names the comprehension of `original` iterates over, in dict order
UserNames(m) ==
    LET user == SelectSeq(m, LAMBDA e : e.k \notin Reserved)
    IN  [i \in DOMAIN user |-> user[i].k]

\* the error of the first get that raises while `original` is built, or Ok
RECURSIVE FirstGetError(_, _, _)
FirstGetError(v, names, i) ==
    IF i > Len(names) THEN Ok
    ELSE LET r == get(v, names[i])
         IN  IF r.err # Ok THEN r.err ELSE FirstGetError(v, names, i + 1)

\* the loop `for name, data in original.items(): self.store(name, data, True)`
RECURSIVE ReStore(_, _, _)
ReStore(v, original, i) ==
    IF i > Len(original) THEN [err |-> Ok, vault |-> v]
    ELSE LET r == store(v, original[i].k, original[i].v, TRUE)
         IN  IF r.err # Ok THEN r ELSE ReStore(r.vault, original, i + 1)

\* a variant that keeps the digest a vault already has (setdefault)
PutMetadataKeepDigest(v, pswd, salt) ==
    LET kept == IF Has(v.mapping, PW_FIELD) THEN Lookup(v.mapping, PW_FIELD) ELSE pswd
    IN  [v EXCEPT !.mapping = Put(Put(v.mapping, PW_FIELD, kept), SALT_FIELD, salt)]

PutMetadata(v, pswd, salt) ==
    [v EXCEPT !.mapping = Put(Put(v.mapping, PW_FIELD, pswd), SALT_FIELD, salt)]

\* a variant that uses the salt the vault already has when none is given
update_encryptions_existing_salt(v, password, salt, pswd_is_digest, rnd) ==
    LET pswd == IF pswd_is_digest THEN password ELSE Sha256Hex(password)
        usedSalt == IF salt # <<>> THEN salt
                    ELSE IF Has(v.mapping, SALT_FIELD)
                    THEN Lookup(v.mapping, SALT_FIELD)
                    ELSE rnd
        key == DeriveKey(pswd, usedSalt)
        names == UserNames(v.mapping)
        getErr == FirstGetError(v, names, 1)
    IN  IF getErr # Ok
        THEN [err |-> getErr, vault |-> v]
        ELSE LET original == [i \in DOMAIN names |->
                                 [k |-> names[i], v |-> get(v, names[i]).val]]
                 r == ReStore([v EXCEPT !.key = key], original, 1)
             IN  IF r.err # Ok THEN r
                 ELSE [err |-> Ok, vault |-> PutMetadata(r.vault, pswd, usedSalt)]

update_encryptions(v, password, salt, pswd_is_digest, rnd) ==
    LET pswd == IF pswd_is_digest THEN password ELSE Sha256Hex(password)
        usedSalt == IF salt # <<>> THEN salt ELSE rnd
        key == DeriveKey(pswd, usedSalt)
        names == UserNames(v.mapping)
        getErr == FirstGetError(v, names, 1)
    IN  IF getErr # Ok
        THEN [err |-> getErr, vault |-> v]
        ELSE LET original == [i \in DOMAIN names |->
                                 [k |-> names[i], v |-> get(v, names[i]).val]]
                 r == ReStore([v EXCEPT !.key = key], original, 1)
             IN  IF r.err # Ok THEN r
                 ELSE [err |-> Ok, vault |-> PutMetadata(r.vault, pswd, usedSalt)]

\* __init__(password, salt, pswd_is_digest): an empty mapping, then re-key
NoKey == <<>>

init(password, salt, pswd_is_digest, rnd) ==
    update_encryptions([key |-> NoKey, mapping |-> <<>>],
                       password, salt, pswd_is_digest, rnd).vault

(***************************************************************************)
(* update_password(old_password, new_password).                            *)
(***************************************************************************)
\* a variant that re-keys without comparing the digests
update_password_unchecked(v, old_password, new_password, rnd) ==
    update_encryptions(v, new_password, <<>>, FALSE, rnd)

update_password(v, old_password, new_password, rnd) ==
    IF Sha256Hex(old_password) # Lookup(v.mapping, PW_FIELD)
    THEN [err |-> "ValueError: old password is incorrect", vault |-> v]
    ELSE update_encryptions(v, new_password, <<>>, FALSE, rnd)

(***************************************************************************)
(* base64.b64encode(v).decode('utf-8') and base64.b64decode(v): text is a  *)
(* sequence of ASCII codes.                                                *)
(***************************************************************************)
B64_PAD == 61

\* the character of a 6-bit value
B64Char(n) ==
    IF n < 26 THEN 65 + n
    ELSE IF n < 52 THEN 97 + (n - 26)
    ELSE IF n < 62 THEN 48 + (n - 52)
    ELSE IF n = 62 THEN 43 ELSE 47

\* the 6-bit value of a character, 64 for a character outside the alphabet
B64Value(c) ==
    IF c >= 65 /\ c <= 90 THEN c - 65
    ELSE IF c >= 97 /\ c <= 122 THEN c - 97 + 26
    ELSE IF c >= 48 /\ c <= 57 THEN c - 48 + 52
    ELSE IF c = 43 THEN 62
    ELSE IF c = 47 THEN 63
    ELSE 64

b64encode(b) ==
    LET n == Len(b)
        groups == (n + 2) \div 3
        at(j) == IF j <= n THEN b[j] ELSE 0
        char(i) ==
            LET g == (i - 1) \div 4
                pos == (i - 1) % 4
                have == IF n - 3 * g >= 3 THEN 3 ELSE n - 3 * g
                b0 == at(3 * g + 1)
                b1 == at(3 * g + 2)
                b2 == at(3 * g + 3)
            IN  CASE pos = 0 -> B64Char(b0 \div 4)
                  [] pos = 1 -> B64Char((b0 % 4) * 16 + (b1 \div 16))
                  [] pos = 2 -> IF have >= 2
                                THEN B64Char((b1 % 16) * 4 + (b2 \div 64))
                                ELSE B64_PAD
                  [] OTHER -> IF have = 3 THEN B64Char(b2 % 64) ELSE B64_PAD
    IN  [i \in 1..(4 * groups) |-> char(i)]

B64Error == <<-2>>

\* binascii.a2b_base64 in its default (non-strict) mode: characters outside
\* the alphabet are skipped, a complete pad sequence ends the input, and a
\* dangling partial quad is an error
B64Bytes(vals) ==
    LET n == Len(vals)
        nbytes == 3 * (n \div 4) + (IF n % 4 = 0 THEN 0 ELSE (n % 4) - 1)
        byte(k) ==
            LET g == (k - 1) \div 3
                pos == (k - 1) % 3
            IN  CASE pos = 0 -> vals[4 * g + 1] * 4 + (vals[4 * g + 2] \div 16)
                  [] pos = 1 -> (vals[4 * g + 2] % 16) * 16 + (vals[4 * g + 3] \div 4)
                  [] OTHER -> (vals[4 * g + 3] % 4) * 64 + vals[4 * g + 4]
    IN  [k \in 1..nbytes |-> byte(k)]

b64decode(t) ==
    LET vals == [i \in DOMAIN t |-> B64Value(t[i])]
        isData(i) == vals[i] < 64
        \* quad_pos when t[i] is read: the data characters before it, mod 4
        before(i) == Cardinality({j \in 1..(i - 1) : isData(j)})
        lastData(i) == IF before(i) = 0 THEN 0
                       ELSE CHOOSE j \in 1..(i - 1) :
                              isData(j) /\ \A m \in (j + 1)..(i - 1) : ~isData(m)
        \* pads counted when the pad t[i] is read
        pads(i) == Cardinality({j \in (lastData(i) + 1)..i : t[j] = B64_PAD})
        ends(i) == /\ t[i] = B64_PAD
                   /\ before(i) % 4 >= 2
                   /\ (before(i) % 4) + pads(i) >= 4
        stops == {i \in DOMAIN t : ends(i)}
        stop == IF stops = {} THEN Len(t) + 1
                ELSE CHOOSE i \in stops : \A j \in stops : i <= j
        data == SelectSeq(SubSeq(vals, 1, stop - 1), LAMBDA c : c < 64)
    IN  IF stops = {} /\ Len(data) % 4 # 0 THEN B64Error
        ELSE B64Bytes(data)

(***************************************************************************)
(* The file system: a file is absent or holds what json.load would see: a  *)
(* text that is not JSON, a JSON value that is not an object, or an object *)
(* (items in file order) whose values are strings or numbers.              *)
(***************************************************************************)
Absent == [kind |-> "absent", items |-> <<>>]
NotJson == [kind |-> "garbage", items |-> <<>>]
JsonList == [kind |-> "list", items |-> <<>>]

JsonStr(text) == [t |-> "str", s |-> text]
JsonInt == [t |-> "int", s |-> <<>>]
JsonDict(items) == [kind |-> "dict", items |-> items]

(***************************************************************************)
(* save(filename): json.dump of {k: b64encode(v)}.                         *)
(***************************************************************************)
SaveContent(v) ==
    JsonDict([i \in DOMAIN v.mapping |->
                [k |-> v.mapping[i].k, v |-> JsonStr(b64encode(v.mapping[i].v))]])

save(v, fs, filename) ==
    IF filename = ""
    THEN [err |-> "ValueError: filename", files |-> fs]
    ELSE [err |-> Ok, files |-> [fs EXCEPT ![filename] = SaveContent(v)]]

(***************************************************************************)
(* load(filename, password): the outcome and the vault returned.           *)
(***************************************************************************)
NoVault == [key |-> NoKey, mapping |-> <<>>]

\* the comprehension {k: bytearray(b64decode(v))}: b64decode raises TypeError
\* for a value that is not text and binascii.Error for malformed base64
B64TypeError == <<-3>>

DecodeItems(items) ==
    [i \in DOMAIN items |->
        [k |-> items[i].k,
         v |-> IF items[i].v.t # "str" THEN B64TypeError
               ELSE b64decode(items[i].v.s)]]

\* the error of the first value the comprehension fails to decode, or Ok
RECURSIVE FirstDecodeError(_, _)
FirstDecodeError(mappings, i) ==
    IF i > Len(mappings) THEN Ok
    ELSE IF mappings[i].v = B64TypeError THEN "TypeError: b64decode"
    ELSE IF mappings[i].v = B64Error THEN "binascii.Error"
    ELSE FirstDecodeError(mappings, i + 1)

\* a variant that does not compare the password with the stored digest
load_unverified(fs, filename, password, rnd) ==
    IF filename = ""
    THEN [err |-> "ValueError: filename", vault |-> NoVault]
    ELSE LET data == fs[filename]
             given_pswd == Sha256Hex(password)
         IN  IF data.kind = "absent"
             THEN [err |-> "CredentialsNotFoundError", vault |-> NoVault]
             ELSE IF data.kind = "garbage"
             THEN [err |-> "JSONDecodeError", vault |-> NoVault]
             ELSE IF data.kind # "dict"
             THEN [err |-> "TypeError: invalid configuration", vault |-> NoVault]
             ELSE IF ~Has(data.items, PW_FIELD) \/ ~Has(data.items, SALT_FIELD)
             THEN [err |-> "ValueError: missing required fields", vault |-> NoVault]
             ELSE LET mappings == DecodeItems(data.items)
                      decodeErr == FirstDecodeError(mappings, 1)
                      loaded_pwsd == Lookup(mappings, PW_FIELD)
                      salt == Lookup(mappings, SALT_FIELD)
                  IN  IF decodeErr # Ok
                      THEN [err |-> decodeErr, vault |-> NoVault]
                      ELSE [err |-> Ok,
                            vault |-> [init(loaded_pwsd, salt, TRUE, rnd)
                                         EXCEPT !.mapping = mappings]]

\* a variant that compares the password as soon as the stored digest is
\* decoded, before the other values are decoded
load_password_first(fs, filename, password, rnd) ==
    IF filename = ""
    THEN [err |-> "ValueError: filename", vault |-> NoVault]
    ELSE LET data == fs[filename]
             given_pswd == Sha256Hex(password)
         IN  IF data.kind = "absent"
             THEN [err |-> "CredentialsNotFoundError", vault |-> NoVault]
             ELSE IF data.kind = "garbage"
             THEN [err |-> "JSONDecodeError", vault |-> NoVault]
             ELSE IF data.kind # "dict"
             THEN [err |-> "TypeError: invalid configuration", vault |-> NoVault]
             ELSE IF ~Has(data.items, PW_FIELD) \/ ~Has(data.items, SALT_FIELD)
             THEN [err |-> "ValueError: missing required fields", vault |-> NoVault]
             ELSE LET mappings == DecodeItems(data.items)
                      decodeErr == FirstDecodeError(mappings, 1)
                      loaded_pwsd == Lookup(mappings, PW_FIELD)
                      salt == Lookup(mappings, SALT_FIELD)
                  IN  IF loaded_pwsd \notin {B64TypeError, B64Error, given_pswd}
                      THEN [err |-> "ValueError: Incorrect password", vault |-> NoVault]
                      ELSE IF decodeErr # Ok
                      THEN [err |-> decodeErr, vault |-> NoVault]
                      ELSE [err |-> Ok,
                            vault |-> [init(loaded_pwsd, salt, TRUE, rnd)
                                         EXCEPT !.mapping = mappings]]

load(fs, filename, password, rnd) ==
    IF filename = ""
    THEN [err |-> "ValueError: filename", vault |-> NoVault]
    ELSE LET data == fs[filename]
             given_pswd == Sha256Hex(password)
         IN  IF data.kind = "absent"
             THEN [err |-> "CredentialsNotFoundError", vault |-> NoVault]
             ELSE IF data.kind = "garbage"
             THEN [err |-> "JSONDecodeError", vault |-> NoVault]
             ELSE IF data.kind # "dict"
             THEN [err |-> "TypeError: invalid configuration", vault |-> NoVault]
             ELSE IF ~Has(data.items, PW_FIELD) \/ ~Has(data.items, SALT_FIELD)
             THEN [err |-> "ValueError: missing required fields", vault |-> NoVault]
             ELSE LET mappings == DecodeItems(data.items)
                      decodeErr == FirstDecodeError(mappings, 1)
                      loaded_pwsd == Lookup(mappings, PW_FIELD)
                      salt == Lookup(mappings, SALT_FIELD)
                  IN  IF decodeErr # Ok
                      THEN [err |-> decodeErr, vault |-> NoVault]
                      ELSE IF loaded_pwsd # given_pswd
                      THEN [err |-> "ValueError: Incorrect password", vault |-> NoVault]
                      ELSE [err |-> Ok,
                            vault |-> [init(loaded_pwsd, salt, TRUE, rnd)
                                         EXCEPT !.mapping = mappings]]

(***************************************************************************)
(* Inputs of the operations.                                               *)
(***************************************************************************)
\* credential names: empty, a user name, and the reserved name of the salt
Names == {"", "a", SALT_FIELD}

\* credential data: empty, "a", U+00E9, U+00C3 U+00A9 (whose bytes are the
\* UTF-8 of U+00E9), U+00C4 U+0080 (the UTF-8 of U+0100), and U+0100
Data == {<<>>, <<97>>, <<233>>, <<195, 169>>, <<196, 128>>, <<256>>}

\* the salts secrets.randbelow can produce: three of the 256^SaltLength; the
\* third differs from the first in its last byte only
Salt0 == [i \in 1..SaltLength |-> 0]
Salt1 == [i \in 1..SaltLength |-> (7 * i) % 256]
Salt2 == [i \in 1..SaltLength |-> IF i = SaltLength THEN 255 ELSE 0]
Salt3 == [i \in 1..SaltLength |-> IF i = 2 THEN 1 ELSE 0]
Salts == {Salt0, Salt1}

\* the salts of the two-vault specification
PairSalts == {Salt0, Salt1, Salt2, Salt3}

\* the names and data stored in the two-vault specification
PairNames == {"", "a"}
\* a text one character longer than the key
LongText == [i \in 1..(KeyLength + 1) |-> 96 + ((i * i) % 26)]

PairData == {<<>>, <<97>>, <<97, 98>>, <<233>>, <<195, 169>>, <<256>>, LongText}

\* no plaintext stored yet
NoData == <<-4>>

Paths == {"", "f"}

\* the names and data stored in the specification of a vault and its file
DiskNames == {"a", SALT_FIELD}
DiskData == {<<97>>, <<98>>}

\* files written by other programs, as the tests write them
ForeignFiles ==
    { NotJson,
      JsonList,
      JsonDict(<<[k |-> PW_FIELD, v |-> JsonStr(b64encode(Sha256Hex("p1")))]>>),
      JsonDict(<<[k |-> SALT_FIELD, v |-> JsonStr(b64encode(Salt1))]>>),
      JsonDict(<<[k |-> PW_FIELD, v |-> JsonInt],
                 [k |-> SALT_FIELD, v |-> JsonStr(b64encode(Salt1))]>>),
      JsonDict(<<[k |-> PW_FIELD, v |-> JsonStr(b64encode(Sha256Hex("p1")))],
                 [k |-> SALT_FIELD, v |-> JsonStr(<<97>>)]>>),
      JsonDict(<<[k |-> PW_FIELD, v |-> JsonStr(b64encode(Sha256Hex("p1")))],
                 [k |-> SALT_FIELD, v |-> JsonStr(<<>>)],
                 [k |-> "a", v |-> JsonStr(b64encode(<<196, 128>>))]>>) }

(***************************************************************************)
(* The state.                                                              *)
(*   cm     the vault the program holds                                    *)
(*   files  the file system                                                *)
(*   last   the last call: the operation, its outcome, the credential name *)
(*          or file name it was given, and the password it was given       *)
(*   chain  the passwords the vault has had since it was created or loaded *)
(*   clean  no call so far failed after changing the vault, and the vault  *)
(*          was not loaded                                                 *)
(*   steps  the number of calls that succeeded or changed the vault        *)
(*   cm2    a second vault, created independently with the same password   *)
(*   pair   for the two vaults: the salts they were created with, and the  *)
(*          plaintext last stored under each name                          *)
(*   conc   for two callers sharing the vault: where the store of one and  *)
(*          the update_password of the other stand, their local variables, *)
(*          and the plaintext of the last store that returned, per name    *)
(***************************************************************************)
VARIABLES cm, files, last, chain, clean, steps, cm2, pair, conc

vars == <<cm, files, last, chain, clean, steps, cm2, pair, conc>>

NoConc == <<>>

NoPair == [salts |-> <<>>, plain |-> <<>>]

Called(op, err, name, pw) == [op |-> op, err |-> err, name |-> name, pw |-> pw]

Init ==
    /\ \E rnd \in Salts : cm = init("p1", <<>>, FALSE, rnd)
    /\ files = [p \in Paths \ {""} |-> Absent]
    /\ last = Called("init", Ok, "", "p1")
    /\ chain = <<"p1">>
    /\ clean = TRUE
    /\ steps = 0
    /\ cm2 = NoVault
    /\ pair = NoPair
    /\ conc = NoConc

Count(changed) == IF changed THEN steps + 1 ELSE steps

Store(name, data, overwrite) ==
    LET r == store(cm, name, data, overwrite)
    IN  /\ steps < MaxSteps
        /\ cm' = r.vault
        /\ last' = Called("store", r.err, name, "")
        /\ clean' = (clean /\ (r.err = Ok \/ r.vault = cm))
        /\ steps' = Count(r.err = Ok \/ r.vault # cm)
        /\ UNCHANGED <<files, chain, cm2, pair, conc>>

Get(name) ==
    /\ last' = Called("get", get(cm, name).err, name, "")
    /\ UNCHANGED <<cm, files, chain, clean, steps, cm2, pair, conc>>

UpdatePassword(old_password, new_password, rnd) ==
    LET r == update_password(cm, old_password, new_password, rnd)
    IN  /\ steps < MaxSteps
        /\ cm' = r.vault
        /\ last' = Called("update_password", r.err, "", old_password)
        /\ chain' = IF r.err = Ok THEN Append(chain, new_password) ELSE chain
        /\ clean' = (clean /\ (r.err = Ok \/ r.vault = cm))
        /\ steps' = Count(r.err = Ok \/ r.vault # cm)
        /\ UNCHANGED <<files, cm2, pair, conc>>

Save(filename) ==
    LET r == save(cm, files, filename)
    IN  /\ steps < MaxSteps
        /\ files' = r.files
        /\ last' = Called("save", r.err, filename, "")
        /\ steps' = Count(r.err = Ok)
        /\ UNCHANGED <<cm, chain, clean, cm2, pair, conc>>

\* cm = CredentialsManager.load(filename, password); a failed load leaves
\* the program with the vault it had
Load(filename, password, rnd) ==
    LET r == load(files, filename, password, rnd)
    IN  /\ steps < MaxSteps
        /\ cm' = IF r.err = Ok THEN r.vault ELSE cm
        /\ last' = Called("load", r.err, filename, password)
        /\ chain' = IF r.err = Ok THEN <<password>> ELSE chain
        /\ clean' = (clean /\ r.err # Ok)
        /\ steps' = Count(r.err = Ok)
        /\ UNCHANGED <<files, cm2, pair, conc>>

\* another program writes or removes the file
WriteFile(filename, content) ==
    /\ steps < MaxSteps
    /\ files[filename] # content
    /\ files' = [files EXCEPT ![filename] = content]
    /\ last' = Called("write", Ok, filename, "")
    /\ steps' = steps + 1
    /\ UNCHANGED <<cm, chain, clean, cm2, pair, conc>>

Next ==
    \/ \E name \in Names, data \in Data, overwrite \in BOOLEAN :
          Store(name, data, overwrite)
    \/ \E name \in Names : Get(name)
    \/ \E old \in Passwords, new \in Passwords, rnd \in Salts :
          UpdatePassword(old, new, rnd)
    \/ \E filename \in Paths : Save(filename)
    \/ \E filename \in Paths, password \in Passwords, rnd \in Salts :
          Load(filename, password, rnd)
    \/ \E filename \in Paths \ {""}, content \in ForeignFiles \cup {Absent} :
          WriteFile(filename, content)

Spec == Init /\ [][Next]_vars

(***************************************************************************)
(* Two vaults created with the same password (test_different_system_info): *)
(* each draws its own salt, and credentials are stored in either.          *)
(***************************************************************************)
Vault(n) == IF n = 1 THEN cm ELSE cm2

InitPair ==
    /\ \E s1 \in PairSalts, s2 \in PairSalts :
          /\ cm = init("p1", <<>>, FALSE, s1)
          /\ cm2 = init("p1", <<>>, FALSE, s2)
          /\ pair = [salts |-> <<s1, s2>>,
                     plain |-> [n \in 1..2 |-> [name \in PairNames |-> NoData]]]
    /\ files = [p \in Paths \ {""} |-> Absent]
    /\ last = Called("init", Ok, "", "p1")
    /\ chain = <<"p1">>
    /\ clean = TRUE
    /\ steps = 0
    /\ conc = NoConc

PairStore(n, name, data, overwrite) ==
    LET r == store(Vault(n), name, data, overwrite)
    IN  /\ cm' = IF n = 1 THEN r.vault ELSE cm
        /\ cm2' = IF n = 2 THEN r.vault ELSE cm2
        /\ pair' = IF r.err = Ok
                   THEN [pair EXCEPT !.plain[n][name] = data]
                   ELSE pair
        /\ last' = Called("store", r.err, name, "")
        /\ UNCHANGED <<files, chain, clean, steps, conc>>

PairGet(n, name) ==
    /\ last' = Called("get", get(Vault(n), name).err, name, "")
    /\ UNCHANGED <<cm, cm2, pair, files, chain, clean, steps, conc>>

NextPair ==
    \/ \E n \in 1..2, name \in PairNames, data \in PairData, overwrite \in BOOLEAN :
          PairStore(n, name, data, overwrite)
    \/ \E n \in 1..2, name \in PairNames : PairGet(n, name)

SpecPair == InitPair /\ [][NextPair]_vars

(***************************************************************************)
(* A vault and the file it saves: stores, saves and rotations only, so that *)
(* a longer history of one vault fits the bound.                           *)
(***************************************************************************)
DiskStore(name, data, overwrite) ==
    LET r == store(cm, name, data, overwrite)
    IN  /\ steps < MaxDiskSteps
        /\ cm' = r.vault
        /\ last' = Called("store", r.err, name, "")
        /\ clean' = (clean /\ (r.err = Ok \/ r.vault = cm))
        /\ steps' = Count(r.err = Ok \/ r.vault # cm)
        /\ UNCHANGED <<files, chain, cm2, pair, conc>>

DiskUpdatePassword(old_password, new_password, rnd) ==
    LET r == update_password(cm, old_password, new_password, rnd)
    IN  /\ steps < MaxDiskSteps
        /\ cm' = r.vault
        /\ last' = Called("update_password", r.err, "", old_password)
        /\ chain' = IF r.err = Ok THEN Append(chain, new_password) ELSE chain
        /\ clean' = (clean /\ (r.err = Ok \/ r.vault = cm))
        /\ steps' = Count(r.err = Ok \/ r.vault # cm)
        /\ UNCHANGED <<files, cm2, pair, conc>>

DiskSave(filename) ==
    LET r == save(cm, files, filename)
    IN  /\ steps < MaxDiskSteps
        /\ files' = r.files
        /\ last' = Called("save", r.err, filename, "")
        /\ steps' = Count(r.err = Ok)
        /\ UNCHANGED <<cm, chain, clean, cm2, pair, conc>>

NextDisk ==
    \/ \E name \in DiskNames, data \in DiskData, overwrite \in BOOLEAN :
          DiskStore(name, data, overwrite)
    \/ \E old \in Passwords, new \in Passwords, rnd \in Salts :
          DiskUpdatePassword(old, new, rnd)
    \/ \E filename \in Paths : DiskSave(filename)

SpecDisk == Init /\ [][NextDisk]_vars

(***************************************************************************)
(* Two callers sharing one vault: one calls store, the other calls         *)
(* update_password.  The class takes no lock, so a caller can be preempted *)
(* between any two statements; a step here is one statement (or one group  *)
(* of statements that reads or writes the vault once).                     *)
(*   store:            validation (193-214) | the cipher (218 and the      *)
(*                     right-hand side of 219) | the assignment (219)      *)
(*   update_password:  the check and the new key (170-177, 118-131) |      *)
(*                     `original` (136-140) | self.__key = key (143) |     *)
(*                     one store per entry (144-145) | the metadata        *)
(*                     (148-153)                                           *)
(***************************************************************************)
ConcNames == {"a", "b"}
ConcData == {<<97>>, <<98>>}

IdleStore == [pc |-> "idle", name |-> "", data |-> <<>>, cipher |-> <<>>]

IdleRotation ==
    [pc |-> "idle", old |-> "", new |-> "", pswd |-> <<>>, salt |-> <<>>,
     key |-> <<>>, original |-> <<>>, i |-> 0]

InitConc ==
    /\ \E rnd \in Salts : cm = init("p1", <<>>, FALSE, rnd)
    /\ files = [p \in Paths \ {""} |-> Absent]
    /\ last = Called("init", Ok, "", "p1")
    /\ chain = <<"p1">>
    /\ clean = TRUE
    /\ steps = 0
    /\ cm2 = NoVault
    /\ pair = NoPair
    /\ conc = [s |-> IdleStore, r |-> IdleRotation,
               plain |-> [name \in ConcNames |-> NoData]]

\* store, lines 193-214: the validation, which reads the mapping
StoreValidate(name, data, overwrite) ==
    LET err == IF name = "" THEN "ValueError: empty name"
               ELSE IF data = <<>> THEN "ValueError: empty data"
               ELSE IF Has(cm.mapping, name) /\ ~overwrite
               THEN "ValueError: cannot overwrite"
               ELSE Ok
    IN  /\ steps < MaxSteps
        /\ conc.s.pc = "idle"
        /\ steps' = Count(err = Ok)
        /\ IF err = Ok
           THEN /\ conc' = [conc EXCEPT !.s = [IdleStore EXCEPT !.pc = "validated",
                                                               !.name = name,
                                                               !.data = data]]
                /\ UNCHANGED last
           ELSE /\ last' = Called("store", err, name, "")
                /\ UNCHANGED conc
        /\ UNCHANGED <<cm, files, chain, clean, cm2, pair>>

\* store, line 218 and the right-hand side of 219: the cipher, which reads
\* the key
StoreEncrypt ==
    LET cipher == Encrypt(cm.key, conc.s.data)
    IN  /\ conc.s.pc = "validated"
        /\ IF IsBytes(cipher)
           THEN /\ conc' = [conc EXCEPT !.s.pc = "encrypted", !.s.cipher = cipher]
                /\ UNCHANGED last
           ELSE /\ conc' = [conc EXCEPT !.s = IdleStore]
                /\ last' = Called("store", "ValueError: byte must be in range",
                                  conc.s.name, "")
        /\ UNCHANGED <<cm, files, chain, clean, steps, cm2, pair>>

\* store, line 219: the assignment to the mapping; the call returns
StoreAssign ==
    /\ conc.s.pc = "encrypted"
    /\ cm' = [cm EXCEPT !.mapping = Put(cm.mapping, conc.s.name, conc.s.cipher)]
    /\ conc' = [conc EXCEPT !.s = IdleStore, !.plain[conc.s.name] = conc.s.data]
    /\ last' = Called("store", Ok, conc.s.name, "")
    /\ UNCHANGED <<files, chain, clean, steps, cm2, pair>>

\* update_password, lines 170-177, and _update_encryptions, lines 118-131:
\* the comparison with the stored digest, then the new digest, salt and key
RotateDerive(old_password, new_password, rnd) ==
    LET pswd == Sha256Hex(new_password)
    IN  /\ steps < MaxSteps
        /\ conc.r.pc = "idle"
        /\ steps' = Count(Sha256Hex(old_password) = Lookup(cm.mapping, PW_FIELD))
        /\ IF Sha256Hex(old_password) # Lookup(cm.mapping, PW_FIELD)
           THEN /\ last' = Called("update_password",
                                  "ValueError: old password is incorrect",
                                  "", old_password)
                /\ UNCHANGED conc
           ELSE /\ conc' = [conc EXCEPT !.r = [IdleRotation EXCEPT
                                                 !.pc = "derived",
                                                 !.old = old_password,
                                                 !.new = new_password,
                                                 !.pswd = pswd,
                                                 !.salt = rnd,
                                                 !.key = DeriveKey(pswd, rnd)]]
                /\ UNCHANGED last
        /\ UNCHANGED <<cm, files, chain, clean, cm2, pair>>

\* _update_encryptions, lines 136-140: `original`, decrypted with the
\* current key
RotateRead ==
    LET names == UserNames(cm.mapping)
        getErr == FirstGetError(cm, names, 1)
    IN  /\ conc.r.pc = "derived"
        /\ IF getErr = Ok
           THEN /\ conc' = [conc EXCEPT
                             !.r.pc = "read",
                             !.r.original =
                                 [i \in DOMAIN names |->
                                     [k |-> names[i], v |-> get(cm, names[i]).val]]]
                /\ UNCHANGED last
           ELSE /\ conc' = [conc EXCEPT !.r = IdleRotation]
                /\ last' = Called("update_password", getErr, "", conc.r.old)
        /\ UNCHANGED <<cm, files, chain, clean, steps, cm2, pair>>

\* _update_encryptions, line 143: self.__key = key
RotateSetKey ==
    /\ conc.r.pc = "read"
    /\ cm' = [cm EXCEPT !.key = conc.r.key]
    /\ conc' = [conc EXCEPT !.r.pc = "keyed", !.r.i = 1]
    /\ UNCHANGED <<files, last, chain, clean, steps, cm2, pair>>

\* _update_encryptions, lines 144-145: one iteration of the loop
RotateReStore ==
    LET e == conc.r.original[conc.r.i]
        r == store(cm, e.k, e.v, TRUE)
    IN  /\ conc.r.pc = "keyed"
        /\ conc.r.i <= Len(conc.r.original)
        /\ cm' = r.vault
        /\ IF r.err = Ok
           THEN /\ conc' = [conc EXCEPT !.r.i = conc.r.i + 1]
                /\ UNCHANGED last
           ELSE /\ conc' = [conc EXCEPT !.r = IdleRotation]
                /\ last' = Called("update_password", r.err, "", conc.r.old)
        /\ UNCHANGED <<files, chain, clean, steps, cm2, pair>>

\* _update_encryptions, lines 148-153: the metadata; the call returns
RotateMetadata ==
    /\ conc.r.pc = "keyed"
    /\ conc.r.i > Len(conc.r.original)
    /\ cm' = PutMetadata(cm, conc.r.pswd, conc.r.salt)
    /\ conc' = [conc EXCEPT !.r = IdleRotation]
    /\ last' = Called("update_password", Ok, "", conc.r.old)
    /\ chain' = Append(chain, conc.r.new)
    /\ UNCHANGED <<files, clean, steps, cm2, pair>>

NextConc ==
    \/ \E name \in ConcNames, data \in ConcData, overwrite \in BOOLEAN :
          StoreValidate(name, data, overwrite)
    \/ StoreEncrypt
    \/ StoreAssign
    \/ \E old \in Passwords, new \in Passwords, rnd \in Salts :
          RotateDerive(old, new, rnd)
    \/ RotateRead
    \/ RotateSetKey
    \/ RotateReStore
    \/ RotateMetadata

SpecConc == InitConc /\ [][NextConc]_vars

(***************************************************************************)
(* Properties.                                                             *)
(***************************************************************************)
WrongPassword == "ValueError: old password is incorrect"

UserKeys(v) == Keys(v.mapping) \ Reserved

StoredDigest(v) == Lookup(v.mapping, PW_FIELD)

StoredSalt(v) == Lookup(v.mapping, SALT_FIELD)

\* C1: round trip.  For every non-empty name and non-empty data, when
\* store(name, data) succeeds, the get(name) that follows returns data.
RoundTrip ==
    [][\A name \in Names \ {""}, data \in Data \ {<<>>}, overwrite \in BOOLEAN :
          (/\ last'.op = "store"
           /\ last'.err = Ok
           /\ Store(name, data, overwrite))
          => get(cm', name) = [err |-> Ok, val |-> data]]_vars

\* C2: rotation preserves content.  After an update_password given the
\* current password succeeds, get returns for every credential stored before
\* the rotation what it returned before the rotation.
RotationPreservesContent ==
    [][\A old \in Passwords, new \in Passwords, rnd \in Salts :
          (/\ last'.op = "update_password"
           /\ last'.err = Ok
           /\ UpdatePassword(old, new, rnd))
          => \A name \in UserKeys(cm) : get(cm', name) = get(cm, name)]_vars

\* C3: wrong-password rejection.  update_password(old, new) with a digest of
\* old that differs from the stored digest raises "old password is
\* incorrect" and leaves the key and every entry as they were, so that every
\* get returns what it returned before.
WrongPasswordCall ==
    \A old \in Passwords :
        Sha256Hex(old) # StoredDigest(cm)
        => \A new \in Passwords, rnd \in Salts :
              update_password(cm, old, new, rnd) = [err |-> WrongPassword, vault |-> cm]

WrongPasswordStep ==
    (/\ last'.op = "update_password"
     /\ Sha256Hex(last'.pw) # StoredDigest(cm))
    => /\ last'.err = WrongPassword
       /\ cm' = cm
       /\ \A name \in Names : get(cm', name) = get(cm, name)

WrongPasswordRejected == []WrongPasswordCall /\ [][WrongPasswordStep]_vars

\* a rejected rotation of a vault that holds a credential
WrongPasswordWitness ==
    /\ last.op = "update_password"
    /\ last.err = WrongPassword
    /\ \E name \in UserKeys(cm) : get(cm, name).err = Ok

\* C4: load fidelity.  For a vault reached by successful store and
\* update_password calls, save followed by load with the current password
\* succeeds, and the loaded vault's get agrees with the original's for every
\* stored credential.
LoadFidelity ==
    clean =>
        \A rnd \in Salts :
            LET r == load(save(cm, files, "f").files, "f", chain[Len(chain)], rnd)
            IN  /\ r.err = Ok
                /\ \A name \in UserKeys(cm) : get(r.vault, name) = get(cm, name)

\* C5: overwrite protection.  A store on a name that exists raises "cannot
\* overwrite" and keeps the entry when overwrite is false; with overwrite
\* true it succeeds and get returns the new data.
OverwriteProtection ==
    [][\A name \in Names \ Reserved, data \in Data \ {<<>>}, overwrite \in BOOLEAN :
          (/\ last'.op = "store"
           /\ Has(cm.mapping, name)
           /\ Store(name, data, overwrite))
          => IF overwrite
             THEN /\ last'.err = Ok
                  /\ get(cm', name) = [err |-> Ok, val |-> data]
             ELSE /\ last'.err = "ValueError: cannot overwrite"
                  /\ cm' = cm]_vars

IncorrectPassword == "ValueError: Incorrect password"

PairwiseDistinct(seq) ==
    \A i \in DOMAIN seq, j \in DOMAIN seq : i # j => seq[i] # seq[j]

\* the password p is rejected by update_password and by load of a saved file
Rejected(p) ==
    /\ \A x \in Passwords, rnd \in Salts :
          update_password(cm, p, x, rnd) = [err |-> WrongPassword, vault |-> cm]
    /\ \A rnd \in Salts :
          load(save(cm, files, "f").files, "f", p, rnd).err = IncorrectPassword

\* C6: superseded passwords stop working.  After update_password(old, new)
\* succeeds with new different from old, update_password(old, x) raises "old
\* password is incorrect", and after a save, load with old raises "Incorrect
\* password" while load with new succeeds; after a chain of rotations through
\* pairwise distinct passwords every earlier password is rejected.
SupersededRejected ==
    (last.op = "update_password" /\ last.err = Ok)
    => LET new == chain[Len(chain)]
           old == last.pw
       IN  /\ new # old
              => /\ Rejected(old)
                 /\ \A rnd \in Salts :
                       load(save(cm, files, "f").files, "f", new, rnd).err = Ok
           /\ PairwiseDistinct(chain)
              => \A i \in 1..(Len(chain) - 1) : Rejected(chain[i])

\* two rotations through three distinct passwords
SupersededWitness ==
    /\ last.op = "update_password"
    /\ last.err = Ok
    /\ Len(chain) = 3
    /\ PairwiseDistinct(chain)

\* C7: rotation is all-or-nothing.  An update_password given the current
\* password either succeeds, with the digest entry that of the new password
\* and the key derived from the new digest and salt entries, or fails and
\* leaves the key and the mapping as they were.
AllOrNothing ==
    [][(/\ last'.op = "update_password"
        /\ Sha256Hex(last'.pw) = StoredDigest(cm))
       => \/ /\ last'.err = Ok
             /\ StoredDigest(cm') = Sha256Hex(chain'[Len(chain')])
             /\ cm'.key = DeriveKey(StoredDigest(cm'), StoredSalt(cm'))
          \/ /\ last'.err # Ok
             /\ cm' = cm]_vars

\* the values of a JSON object that are not text, and those that are text
\* but not well-formed base64
NonText(items) == {i \in DOMAIN items : items[i].v.t # "str"}

Malformed(items) ==
    {i \in DOMAIN items : items[i].v.t = "str" /\ b64decode(items[i].v.s) = B64Error}

IsTypeError(err) ==
    err \in {"TypeError: invalid configuration", "TypeError: b64decode"}

\* C8: load failure kinds.  load raises CredentialsNotFoundError when the
\* file does not exist, TypeError when the parsed content is not a mapping
\* of names to text, ValueError "Missing required fields" when either
\* metadata key is absent, and ValueError "Incorrect password" when the
\* digest of the password differs from the stored digest; a load that fails
\* returns no vault.
LoadFailureCall ==
    (last.op = "load" /\ last.name # "")
    => LET data == files[last.name]
           items == data.items
           complete == Has(items, PW_FIELD) /\ Has(items, SALT_FIELD)
       IN  /\ data.kind = "absent" => last.err = "CredentialsNotFoundError"
           /\ data.kind = "list" => IsTypeError(last.err)
           /\ (data.kind = "dict" /\ ~complete)
              => last.err = "ValueError: missing required fields"
           /\ (data.kind = "dict" /\ complete
                 /\ NonText(items) # {} /\ Malformed(items) = {})
              => IsTypeError(last.err)
           /\ (data.kind = "dict" /\ complete
                 /\ NonText(items) = {} /\ Malformed(items) = {}
                 /\ b64decode(Lookup(items, PW_FIELD).s) # Sha256Hex(last.pw))
              => last.err = IncorrectPassword
           /\ last.err # Ok
              => \A rnd \in Salts :
                    load(files, last.name, last.pw, rnd).vault = NoVault

LoadFailureStep == (last'.op = "load" /\ last'.err # Ok) => cm' = cm

SaltsDifferWithin(s1, s2, data) ==
    \E i \in 0..(Len(data) - 1) : Cyc(s1, i % KeyLength) # Cyc(s2, i % KeyLength)

SamePlain(name) ==
    /\ pair.plain[1][name] # NoData
    /\ pair.plain[1][name] = pair.plain[2][name]

StoreFrame ==
    [][(last'.op = "store" /\ last'.err = Ok)
       => /\ cm'.key = cm.key
          /\ StoredDigest(cm') = StoredDigest(cm)
          /\ StoredSalt(cm') = StoredSalt(cm)
          /\ \A name \in Keys(cm.mapping) \ {last'.name} :
                Lookup(cm'.mapping, name) = Lookup(cm.mapping, name)]_vars

\* C11: key invariant.  Between operations, and after an operation that
\* failed, the key has length KeyLength and is the derivation of the digest
\* and salt entries the vault holds.
KeyInvariant ==
    /\ Len(cm.key) = KeyLength
    /\ StoredSalt(cm) # <<>>
    /\ cm.key = DeriveKey(StoredDigest(cm), StoredSalt(cm))

\* C12: rotation metadata.  After a successful update_password(old, new) the
\* digest entry is the SHA-256 hex digest of new, the salt entry is the salt
\* generated during the call, of length SaltLength, and the key is the
\* derivation of that digest and that salt.
RotationMetadataStep ==
    (last'.op = "update_password" /\ last'.err = Ok)
    => LET new == chain'[Len(chain')]
       IN  /\ StoredDigest(cm') = Sha256Hex(new)
           /\ Len(StoredSalt(cm')) = SaltLength
           /\ \A rnd \in Salts :
                 UpdatePassword(last'.pw, new, rnd) => StoredSalt(cm') = rnd
           /\ cm'.key = DeriveKey(Sha256Hex(new), StoredSalt(cm'))

RotationOffDiskStep ==
    last'.op = "update_password"
    => /\ files' = files
       /\ (/\ last'.err = Ok
           /\ files["f"] = SaveContent(cm)
           /\ chain'[Len(chain')] # last'.pw)
          => \A rnd \in Salts :
                LET r == load(files', "f", last'.pw, rnd)
                IN  /\ r.err = Ok
                    /\ \A name \in UserKeys(cm) :
                          get(r.vault, name) = get(cm, name)
                    /\ load(files', "f", chain'[Len(chain')], rnd).err
                          = IncorrectPassword

RotationOffDisk == [][RotationOffDiskStep]_vars

\* C14: rekeying keeps the entry set.  A successful update_password leaves
\* the set of entry names and the entry count as they were, and every user
\* entry's ciphertext as long as it was.
EntrySetStableStep ==
    (last'.op = "update_password" /\ last'.err = Ok)
    => /\ Keys(cm'.mapping) = Keys(cm.mapping)
       /\ Len(cm'.mapping) = Len(cm.mapping)
       /\ \A name \in UserKeys(cm) :
             Len(Lookup(cm'.mapping, name)) = Len(Lookup(cm.mapping, name))

EntrySetStable == [][EntrySetStableStep]_vars

EmptyName == "ValueError: empty name"

EmptyData == "ValueError: empty data"

NotKnown == "ValueError: not a known credential"

\* C15: argument and lookup errors.  store with an empty name or empty data
\* raises ValueError, get with an empty name raises ValueError, and get of a
\* name the vault does not hold raises "not a known credential"; the key and
\* the mapping are after each of these calls what they were before.
ArgumentErrorsCall ==
    /\ (last.op \in {"store", "get"} /\ last.name = "") => last.err = EmptyName
    /\ (last.op = "get" /\ last.name # "" /\ ~Has(cm.mapping, last.name))
       => last.err = NotKnown
    /\ \A name \in Names \ {""}, overwrite \in BOOLEAN :
          /\ store(cm, name, <<>>, overwrite).err = EmptyData
          /\ store(cm, name, <<>>, overwrite).vault = cm

ArgumentErrorsStep ==
    /\ last'.op = "get" => cm' = cm
    /\ (last'.op = "store" /\ last'.err \in {EmptyName, EmptyData}) => cm' = cm
    /\ (last'.op = "store" /\ last'.name # "" /\ cm' = cm
          /\ ~Has(cm.mapping, last'.name))
       => last'.err \in {EmptyData, "ValueError: byte must be in range"}

ArgumentErrors == []ArgumentErrorsCall /\ [][ArgumentErrorsStep]_vars

\* a get of a name the vault does not hold, after a rotation
ArgumentErrorsWitness ==
    /\ last.op = "get"
    /\ last.err = NotKnown
    /\ last.name = "a"
    /\ Len(chain) = 2

\* C16: load reconstruction.  After a load that succeeds, the vault's
\* mapping is the base64-decoded mapping of the file, and its key is the
\* derivation of the file's digest and the file's salt as stored, whatever
\* the length of that salt (a key derived from any other salt is not).
LoadReconstruction ==
    (last.op = "load" /\ last.err = Ok)
    => LET mappings == DecodeItems(files[last.name].items)
           salt == Lookup(mappings, SALT_FIELD)
       IN  /\ cm.mapping = mappings
           /\ salt # <<>>
           /\ cm.key = DeriveKey(Lookup(mappings, PW_FIELD), salt)

\* codepoint(data[i]) XOR key[i mod keyLength], for the 0-based index i
CipherOf(key, data) ==
    [i \in 1..Len(data) |-> Xor(data[i], key[((i - 1) % KeyLength) + 1])]

OutOfRange == "ValueError: byte must be in range"

\* C17: store cipher.  The entry a successful store leaves has one byte per
\* character of the data, byte i being codepoint(data[i]) XOR
\* key[i mod keyLength], each in 0..255; a store of data with an XOR result
\* outside 0..255 fails and leaves the vault as it was.
StoreCipherCall ==
    /\ \A n \in 1..2, name \in PairNames \ {""} :
          pair.plain[n][name] # NoData
          => LET cipher == Lookup(Vault(n).mapping, name)
                 data == pair.plain[n][name]
             IN  /\ Len(cipher) = Len(data)
                 /\ cipher = CipherOf(Vault(n).key, data)
                 /\ IsBytes(cipher)
    /\ \A n \in 1..2, data \in PairData \ {<<>>} :
          ~IsBytes(CipherOf(Vault(n).key, data))
          => store(Vault(n), "a", data, TRUE) = [err |-> OutOfRange, vault |-> Vault(n)]

StoreCipherStep ==
    /\ (last'.op = "store" /\ last'.err = OutOfRange) => (cm' = cm /\ cm2' = cm2)
    /\ (last'.op = "store" /\ last'.err = Ok)
       => \E n \in 1..2 :
             /\ pair'.plain[n][last'.name] # NoData
             /\ IsBytes(CipherOf(Vault(n).key, pair'.plain[n][last'.name]))

StoreCipher == []StoreCipherCall /\ [][StoreCipherStep]_vars

\* a text longer than the key is stored, and a store was refused
StoreCipherWitness ==
    /\ pair.plain[1]["a"] = LongText
    /\ Lookup(cm.mapping, "a") = CipherOf(cm.key, LongText)
    /\ last.op = "store"
    /\ last.err = OutOfRange

\* C18: existing salt on re-key.  update_password calls _update_encryptions
\* without a salt, and the salt entry after a successful call is the salt
\* entry before it.
ExistingSaltKept ==
    [][(last'.op = "update_password" /\ last'.err = Ok)
       => StoredSalt(cm') = StoredSalt(cm)]_vars

MissingFields == "ValueError: missing required fields"

\* the first value of a JSON object, in file order, that b64decode rejects
FirstUndecodable(items) ==
    CHOOSE i \in NonText(items) \cup Malformed(items) :
        \A j \in NonText(items) \cup Malformed(items) : i <= j

\* C19: load check ordering.  load reports the first check that fails, in
\* the order path argument, file existence, mapping structure, presence of
\* both metadata keys, base64 decoding, password match; a failure before the
\* password match is reported whatever the password is.
LoadOrder ==
    last.op = "load"
    => IF last.name = "" THEN last.err = "ValueError: filename"
       ELSE LET data == files[last.name]
                items == data.items
                bad == NonText(items) \cup Malformed(items)
            IN  /\ CASE data.kind = "absent" -> last.err = "CredentialsNotFoundError"
                     [] data.kind = "garbage" -> last.err = "JSONDecodeError"
                     [] data.kind = "list" ->
                          last.err = "TypeError: invalid configuration"
                     [] OTHER ->
                          IF ~(Has(items, PW_FIELD) /\ Has(items, SALT_FIELD))
                          THEN last.err = MissingFields
                          ELSE IF bad # {}
                          THEN last.err =
                                 IF FirstUndecodable(items) \in NonText(items)
                                 THEN "TypeError: b64decode" ELSE "binascii.Error"
                          ELSE IF b64decode(Lookup(items, PW_FIELD).s)
                                    # Sha256Hex(last.pw)
                          THEN last.err = IncorrectPassword
                          ELSE last.err = Ok
                /\ last.err \notin {Ok, IncorrectPassword}
                   => \A p \in Passwords, rnd \in Salts :
                         load(files, last.name, p, rnd).err = last.err

\* loads with a wrong password: of a file that lacks a metadata key
LoadOrderWitness ==
    /\ last.op = "load"
    /\ last.err = MissingFields
    /\ Has(files[last.name].items, PW_FIELD)
    /\ b64decode(Lookup(files[last.name].items, PW_FIELD).s) # Sha256Hex(last.pw)

\* C20: mutations are mutually exclusive.  With a store and an
\* update_password issued concurrently on one vault, whenever no call is in
\* progress every user entry decrypts under the current key to the plaintext
\* of the last store of that name that returned.
MutationsExclusive ==
    (conc.s.pc = "idle" /\ conc.r.pc = "idle")
    => \A name \in ConcNames :
          conc.plain[name] # NoData
          => get(cm, name) = [err |-> Ok, val |-> conc.plain[name]]

====
